---- MODULE Spec2Model ----
(***************************************************************************)
(* PoolSense: the measurement session (src/poolsense.py) and the threads   *)
(* that share it: the sensor thread (producer), the Flask request          *)
(* handlers api_start / api_stop / api_data, and the switch_to_testing     *)
(* timer threads started by api_start.                                     *)
(*                                                                         *)
(* Time is the wall clock time.time() in whole seconds.  A Python float is *)
(* modelled as an exact rational [n |-> numerator, d |-> denominator > 0]; *)
(* round(x, k) maps it to an integer count of 10^-k units, so a stored     *)
(* reading holds p in 1/1000 mbar, temp in 1/100 C and d in 1/100 mm.      *)
(*                                                                         *)
(* Every request handler and thread reads the module global `session`      *)
(* afresh at each statement, so the state holds the one instance the       *)
(* global names; its field `id` is the instance's identity (1 = the        *)
(* instance made at import, k+1 = the instance made by the k-th            *)
(* api_start).  A method keeps its `self` while it runs.  Of the two       *)
(* methods that run for several steps, get_readings_since keeps the        *)
(* content of the deque it iterates, which is what it walks when an        *)
(* api_start replaces the instance meanwhile; calculate_leak_rate past its *)
(* length test runs only in specifications in which no api_start can run   *)
(* meanwhile.                                                              *)
(*                                                                         *)
(* The sensor driver (src/ms5837.py) is modelled on its own: `ms` is the   *)
(* MS5837 object under repeated read() calls, with the compensation        *)
(* computed from the raw words.  Where the session is modelled, a pass of  *)
(* the sensor loop draws the compensated pressure and temperature from     *)
(* Pressures and Temps and `ms` stays as constructed.                      *)
(***************************************************************************)
EXTENDS Integers, Sequences, FiniteSets, TLC

VARIABLES
    now,        \* time.time(), seconds
    session,    \* the TestSession the module global `session` names
    nsessions,  \* TestSession instances constructed so far
    sensor,     \* the module global `sensor`: "ok" (an MS5837) or "none" (None)
    prod,       \* sensor_thread: its position and locals
    wk,         \* request handler threads: position and locals of each
    timers,     \* switch_to_testing threads, one per api_start, in spawn order
    ms          \* the MS5837 object: its fields and the position of read()

vars == <<now, session, nsessions, sensor, prod, wk, timers, ms>>

---------------------------------------------------------------------------
(* Bounds of the model *)

\* deque(maxlen=86400) at src/poolsense.py:37, reduced so that a full buffer
\* is reachable; it stays above ReadingsCap as in the program.
maxlen == 302

\* api_start calls in one behaviour
MaxStarts == 2

\* passes of the sensor loop in one behaviour
MaxTicks == 2

(* Program constants *)
SAMPLE_INTERVAL_SEC == 1
BASELINE_DURATION_MIN == 15
\* len(self.readings) < 60
MinReadings == 60
window == 30
\* new_readings[-300:]
ReadingsCap == 300
\* elapsed_min > 6
PreviewAfterMin == 6
pool_surface_m2 == 60

\* Python's None is the empty tuple and a value v that may be None is <<v>>
None == <<>>
Some(v) == <<v>>
Val(o) == o[1]
\* request handler threads: "ctl" serves POST /api/start and /api/stop, one
\* request at a time; "qry" serves GET /api/data, concurrently with it
Control == {"ctl"}
Query == {"qry"}
Workers == Control \cup Query
Active == {"baseline", "testing"}

\* instants of the wall clock the model visits (time.time() is never 0)
TimePoints == {1000, 1540, 1900, 2440}

---------------------------------------------------------------------------
(* Exact arithmetic.  The values of the program's float expressions do    *)
(* not fit the 32-bit integers of TLC, so a natural number is a tuple      *)
(* of base-Base digits, least significant first and without leading zero   *)
(* digits (<<>> is 0), and a rational is [s |-> sign, n |-> numerator     *)
(* magnitude, d |-> denominator magnitude > 0].                            *)

Base == 100 * 100

RECURSIVE Strip(_)
Strip(a) ==
    IF a = <<>> \/ a[Len(a)] # 0 THEN a ELSE Strip(SubSeq(a, 1, Len(a) - 1))

RECURSIVE MagOfNat(_)
MagOfNat(k) == IF k = 0 THEN <<>> ELSE <<k % Base>> \o MagOfNat(k \div Base)

RECURSIVE NatOfMag(_)
NatOfMag(a) == IF a = <<>> THEN 0 ELSE a[1] + Base * NatOfMag(Tail(a))

Digit(a, i) == IF i <= Len(a) THEN a[i] ELSE 0

RECURSIVE MagAddC(_, _, _, _)
MagAddC(a, b, i, c) ==
    IF i > Len(a) /\ i > Len(b) THEN (IF c = 0 THEN <<>> ELSE <<c>>)
    ELSE LET t == Digit(a, i) + Digit(b, i) + c
         IN  <<t % Base>> \o MagAddC(a, b, i + 1, t \div Base)

MagAdd(a, b) == MagAddC(a, b, 1, 0)

RECURSIVE MagCmpAt(_, _, _)
MagCmpAt(a, b, i) ==
    IF i = 0 THEN 0
    ELSE IF a[i] < b[i] THEN -1
    ELSE IF a[i] > b[i] THEN 1
    ELSE MagCmpAt(a, b, i - 1)

\* -1, 0 or 1 as a < b, a = b or a > b
MagCmp(a, b) ==
    IF Len(a) < Len(b) THEN -1
    ELSE IF Len(a) > Len(b) THEN 1
    ELSE MagCmpAt(a, b, Len(a))

RECURSIVE MagSubB(_, _, _, _)
MagSubB(a, b, i, borrow) ==
    IF i > Len(a) THEN <<>>
    ELSE LET t == a[i] - Digit(b, i) - borrow
         IN  <<IF t < 0 THEN t + Base ELSE t>>
             \o MagSubB(a, b, i + 1, IF t < 0 THEN 1 ELSE 0)

\* a - b for a >= b
MagSub(a, b) == Strip(MagSubB(a, b, 1, 0))

RECURSIVE MagMulC(_, _, _, _)
MagMulC(a, m, i, c) ==
    IF i > Len(a) THEN (IF c = 0 THEN <<>> ELSE <<c>>)
    ELSE LET t == a[i] * m + c
         IN  <<t % Base>> \o MagMulC(a, m, i + 1, t \div Base)

\* a * m for a digit m
MagMulDigit(a, m) == Strip(MagMulC(a, m, 1, 0))

MagShift(a, k) == IF a = <<>> THEN <<>> ELSE [i \in 1..k |-> 0] \o a

RECURSIVE MagMulAt(_, _, _)
MagMulAt(a, b, j) ==
    IF j > Len(b) THEN <<>>
    ELSE MagAdd(MagShift(MagMulDigit(a, b[j]), j - 1), MagMulAt(a, b, j + 1))

MagMul(a, b) == MagMulAt(a, b, 1)

RECURSIVE QuotDigit(_, _, _, _)
\* the largest digit q in lo..hi with b * q <= r, given b * lo <= r
QuotDigit(r, b, lo, hi) ==
    IF lo = hi THEN lo
    ELSE LET mid == (lo + hi + 1) \div 2
         IN  IF MagCmp(MagMulDigit(b, mid), r) <= 0
             THEN QuotDigit(r, b, mid, hi)
             ELSE QuotDigit(r, b, lo, mid - 1)

RECURSIVE MagDivAt(_, _, _, _, _)
MagDivAt(a, b, i, q, r) ==
    IF i = 0 THEN [q |-> Strip(q), r |-> r]
    ELSE LET r1 == Strip(<<a[i]>> \o r)
             qd == QuotDigit(r1, b, 0, Base - 1)
         IN  MagDivAt(a, b, i - 1, <<qd>> \o q, MagSub(r1, MagMulDigit(b, qd)))

\* [q, r] with a = q * b + r and 0 <= r < b, for b # 0
MagDivMod(a, b) == MagDivAt(a, b, Len(a), <<>>, <<>>)

Abs(k) == IF k < 0 THEN -k ELSE k

\* the rational n / d of integers n and d > 0
Q(n, d) ==
    [s |-> IF n < 0 THEN -1 ELSE IF n = 0 THEN 0 ELSE 1,
     n |-> MagOfNat(Abs(n)), d |-> MagOfNat(d)]

QInt(k) == Q(k, 1)

QNeg(x) == [x EXCEPT !.s = -x.s]

QAdd(x, y) ==
    LET a == MagMul(x.n, y.d)
        b == MagMul(y.n, x.d)
        d == MagMul(x.d, y.d)
        c == MagCmp(a, b)
    IN  IF x.s = 0 THEN y
        ELSE IF y.s = 0 THEN x
        ELSE IF x.s = y.s THEN [s |-> x.s, n |-> MagAdd(a, b), d |-> d]
        ELSE IF c = 0 THEN Q(0, 1)
        ELSE IF c > 0 THEN [s |-> x.s, n |-> MagSub(a, b), d |-> d]
        ELSE [s |-> y.s, n |-> MagSub(b, a), d |-> d]

QSub(x, y) == QAdd(x, QNeg(y))

QMul(x, y) ==
    IF x.s = 0 \/ y.s = 0 THEN Q(0, 1)
    ELSE [s |-> x.s * y.s, n |-> MagMul(x.n, y.n), d |-> MagMul(x.d, y.d)]

\* x / y for y # 0
QDiv(x, y) ==
    IF x.s = 0 THEN Q(0, 1)
    ELSE [s |-> x.s * y.s, n |-> MagMul(x.n, y.d), d |-> MagMul(x.d, y.n)]

QLt(x, y) == QSub(x, y).s < 0

QEq(x, y) == QSub(x, y).s = 0

QMax(x, y) == IF QLt(x, y) THEN y ELSE x

RECURSIVE Pow10(_)
Pow10(k) == IF k = 0 THEN 1 ELSE 10 * Pow10(k - 1)

\* round(x, places) as a count of 10^-places units: the nearest integer to
\* x * 10^places, a tie going to the even neighbour
Round(x, places) ==
    LET qr   == MagDivMod(MagMulDigit(x.n, Pow10(places)), x.d)
        twoR == MagAdd(qr.r, qr.r)
        c    == MagCmp(twoR, x.d)
        q    == NatOfMag(qr.q)
        m    == IF c < 0 THEN q
                ELSE IF c > 0 THEN q + 1
                ELSE IF q % 2 = 0 THEN q ELSE q + 1
    IN  x.s * m

---------------------------------------------------------------------------
(* TestSession *)

\* `appends` counts the add_reading calls made on the instance (history)
TestSession(id) ==
    [id |-> id, start_time |-> None, readings |-> <<>>,
     status |-> "idle", result |-> None, appends |-> 0]

\* a bounded buffer that refuses the new item when full
DequeAppend_KeepOldest(dq, x) ==
    IF Len(dq) >= maxlen THEN dq ELSE Append(dq, x)

\* deque.append on a deque with maxlen: a full deque drops its leftmost item
DequeAppend(dq, x) ==
    IF Len(dq) >= maxlen THEN Append(Tail(dq), x) ELSE Append(dq, x)

\* the dict add_reading stores
Reading(timestamp, pressure_mbar, temp_c, depth) ==
    [t |-> timestamp,
     p |-> Round(pressure_mbar, 3),
     temp |-> Round(temp_c, 2),
     d |-> Round(depth, 2)]

add_reading(self, timestamp, pressure_mbar, temp_c, depth) ==
    [self EXCEPT !.appends = @ + 1,
                 !.readings = DequeAppend(@,
                     Reading(timestamp, pressure_mbar, temp_c, depth))]

\* a filter that also returns the reading taken at since_timestamp
get_readings_since_Inclusive(self, since_timestamp) ==
    LET After(r) == r.t >= since_timestamp
    IN  SelectSeq(self.readings, After)

get_readings_since(self, since_timestamp) ==
    LET After(r) == r.t > since_timestamp
    IN  SelectSeq(self.readings, After)

\* (time.time() - start_time) / 60.0, and 0 when start_time is falsy
elapsed_minutes(self) ==
    IF self.start_time = None \/ self.start_time = Some(0) THEN Q(0, 1)
    ELSE Q(now - Val(self.start_time), 60)

RECURSIVE SumField(_, _, _, _)
\* sum of field f ("d" or "temp") over s[lo..hi]
SumField(s, f, lo, hi) ==
    IF lo > hi THEN 0
    ELSE IF lo = hi THEN (IF f = "d" THEN s[lo].d ELSE s[lo].temp)
    ELSE LET mid == (lo + hi) \div 2
         IN  SumField(s, f, lo, mid) + SumField(s, f, mid + 1, hi)

\* statistics.mean of field f over s[lo..hi], in the field's stored unit / 100
MeanField(s, f, lo, hi) == Q(SumField(s, f, lo, hi), 100 * (hi - lo + 1))

\* an estimate whose base rate rises from 20 C instead of 15 C
_estimate_evaporation_From20(water_temp_c) ==
    LET base_rate == QAdd(Q(5, 100),
                          QMul(QSub(water_temp_c, QInt(20)), Q(8, 1000)))
    IN  QMax(Q(5, 100), base_rate)

_estimate_evaporation(water_temp_c) ==
    LET base_rate == QAdd(Q(5, 100),
                          QMul(QSub(water_temp_c, QInt(15)), Q(8, 1000)))
    IN  QMax(Q(5, 100), base_rate)

\* a classification whose upper bounds are inclusive
_get_verdict_Inclusive(rate_mm_hr) ==
    IF ~QLt(Q(1, 10), rate_mm_hr) THEN "PASS"
    ELSE IF ~QLt(Q(5, 10), rate_mm_hr) THEN "BORDERLINE"
    ELSE IF ~QLt(QInt(2), rate_mm_hr) THEN "LEAK"
    ELSE "MAJOR LEAK"

_get_verdict(rate_mm_hr) ==
    IF QLt(rate_mm_hr, Q(1, 10)) THEN "PASS"
    ELSE IF QLt(rate_mm_hr, Q(5, 10)) THEN "BORDERLINE"
    ELSE IF QLt(rate_mm_hr, QInt(2)) THEN "LEAK"
    ELSE "MAJOR LEAK"

\* if len(self.readings) < 60
TooFew(rs) == Len(rs) < MinReadings

\* a test that also rejects a span of exactly 6 minutes
TooShort_Inclusive(elapsed_hrs) == ~QLt(Q(1, 10), elapsed_hrs)

\* if elapsed_hrs < 0.1
TooShort(elapsed_hrs) == QLt(elapsed_hrs, Q(1, 10))

\* net_loss_mm / elapsed_hrs (lines 90-100), from the values the call read
leak_rate_mm_hr(start_depth, end_depth, elapsed_hrs, avg_temp) ==
    LET raw_loss_mm      == QSub(start_depth, end_depth)
        evap_rate        == _estimate_evaporation(avg_temp)
        expected_evap_mm == QMul(evap_rate, elapsed_hrs)
        net_loss_mm      == QSub(raw_loss_mm, expected_evap_mm)
    IN  QDiv(net_loss_mm, elapsed_hrs)

\* the dict calculate_leak_rate returns (lines 90-118)
LeakResult(start_depth, end_depth, elapsed_hrs, avg_temp) ==
    LET raw_loss_mm      == QSub(start_depth, end_depth)
        evap_rate        == _estimate_evaporation(avg_temp)
        expected_evap_mm == QMul(evap_rate, elapsed_hrs)
        net_loss_mm      == QSub(raw_loss_mm, expected_evap_mm)
        rate             == leak_rate_mm_hr(start_depth, end_depth,
                                            elapsed_hrs, avg_temp)
        gal_per_day      == QDiv(QMul(rate, QInt(24 * pool_surface_m2)),
                                 Q(3785, 1000))
    IN  Some([raw_loss_mm        |-> Round(raw_loss_mm, 2),
              evap_correction_mm |-> Round(expected_evap_mm, 2),
              net_loss_mm        |-> Round(net_loss_mm, 2),
              leak_rate_mm_hr    |-> Round(rate, 3),
              leak_rate_gal_day  |-> Round(gal_per_day, 1),
              elapsed_hours      |-> Round(elapsed_hrs, 2),
              avg_temp_c         |-> Round(avg_temp, 1),
              verdict            |-> _get_verdict(rate)])

\* the value of a call during which no other thread runs
calculate_leak_rate(self) ==
    LET rs == self.readings
        n  == Len(rs)
    IN  IF TooFew(rs) THEN None
        ELSE
        LET start_depth == MeanField(rs, "d", 1, window)
            end_depth   == MeanField(rs, "d", n - window + 1, n)
            elapsed_hrs == Q(rs[n].t - rs[1].t, 3600)
        IN  IF TooShort(elapsed_hrs) THEN None
            ELSE LeakResult(start_depth, end_depth, elapsed_hrs,
                            MeanField(rs, "temp", 1, n))

---------------------------------------------------------------------------
(* MS5837 (src/ms5837.py) *)

DENSITY_FRESHWATER == 997

\* depth_mm(): (pressure_mbar - 1013.25) * 100 / (density * 9.80665) * 1000
depth_mm(pressure_mbar) ==
    LET water_pressure_pa == QMul(QSub(pressure_mbar, Q(101325, 100)), QInt(100))
        depth_m == QDiv(water_pressure_pa,
                        QMul(QInt(DENSITY_FRESHWATER), Q(980665, 100000)))
    IN  QMul(depth_m, QInt(1000))

\* Python integers are integer-valued rationals (denominator 1) here, and
\* a divisor is a natural number given as a magnitude.
\* x // m: the quotient rounded toward minus infinity
FloorDiv(x, m) ==
    LET qr == MagDivMod(x.n, m)
        up == IF qr.r = <<>> THEN qr.q ELSE MagAdd(qr.q, <<1>>)
    IN  IF x.s >= 0
        THEN [s |-> IF qr.q = <<>> THEN 0 ELSE 1, n |-> qr.q, d |-> <<1>>]
        ELSE [s |-> -1, n |-> up, d |-> <<1>>]

\* 34359738368 = 2^35 as a magnitude
TwoTo35 == MagMul(MagOfNat(32768), MagOfNat(1048576))

\* x / m with the quotient rounded toward zero: the division that differs
\* from // on a negative x that m does not divide
TruncDiv(x, m) ==
    LET q == MagDivMod(x.n, m).q
    IN  [s |-> IF q = <<>> THEN 0 ELSE x.s, n |-> q, d |-> <<1>>]

\* _calculate, with // as its integer division when floor is TRUE and with
\* the truncating division in its place otherwise.  C is the tuple of the
\* calibration words, C[i + 1] here being C[i] there; D1 and D2 are the raw
\* conversions.  The result holds the two fields the method assigns.
Compensate(floor, C, D1, D2) ==
    LET Div(x, m) == IF floor THEN FloorDiv(x, m) ELSE TruncDiv(x, m)
        dT   == QInt(D2 - C[6] * 256)
        SENS == QAdd(QMul(QInt(C[2]), QInt(65536)),
                     Div(QMul(QInt(C[4]), dT), MagOfNat(128)))
        OFF  == QAdd(QMul(QInt(C[3]), QInt(131072)),
                     Div(QMul(QInt(C[5]), dT), MagOfNat(64)))
        Ti   == QAdd(QInt(2000), Div(QMul(dT, QInt(C[7])), MagOfNat(8388608)))
        low  == QLt(Ti, QInt(2000))
        sq   == QMul(QSub(Ti, QInt(2000)), QSub(Ti, QInt(2000)))
        T2    == IF low THEN Div(QMul(QInt(11), QMul(dT, dT)), TwoTo35)
                 ELSE QInt(0)
        OFF2  == IF low THEN Div(QMul(QInt(31), sq), MagOfNat(8)) ELSE QInt(0)
        SENS2 == IF low THEN Div(QMul(QInt(63), sq), MagOfNat(32)) ELSE QInt(0)
        OFFc  == QSub(OFF, OFF2)
        SENSc == QSub(SENS, SENS2)
    IN  [pressure_mbar |->
             QDiv(QDiv(QSub(Div(QMul(QInt(D1), SENSc), MagOfNat(2097152)), OFFc),
                       QInt(32768)),
                  QInt(100)),
         temperature_c |-> QSub(QDiv(Ti, QInt(100)), QDiv(T2, QInt(100)))]

\* MS5837._calculate: every // is Python's floor division
_calculate(C, D1, D2) == Compensate(TRUE, C, D1, D2)

\* the object after __init__ has read the calibration words C; `pc` is the
\* position of a read() call in progress and `ret` what the last one returned
MS5837(C) ==
    [C |-> C, D1 |-> 0, D2 |-> 0, pressure_mbar |-> Q(0, 1),
     temperature_c |-> Q(0, 1), pc |-> "idle", ret |-> FALSE]

\* calibration words: a typical part, and the largest 16-bit words with
\* C[1] = 0
Coefficients ==
    {<<0, 34982, 36352, 20328, 22354, 26646, 26146>>,
     <<0, 0, 65535, 65535, 65535, 65535, 65535>>}

\* 24-bit raw conversions; 6821376 = 26646 * 256 makes dT = 0 for the
\* typical part
RawD1 == {0, 4958179, 16777215}
RawD2 == {0, 6815414, 6821375, 6821376, 6822376, 16777215}

\* read(): the D1 conversion is requested and read
MS_read_D1 ==
    /\ ms.pc = "idle"
    /\ \E d \in RawD1 : ms' = [ms EXCEPT !.pc = "d1", !.D1 = d]
    /\ UNCHANGED <<now, session, nsessions, sensor, prod, wk, timers>>

\* read(): the D2 conversion is requested and read, _calculate runs and
\* read returns True
MS_read_D2 ==
    /\ ms.pc = "d1"
    /\ \E d \in RawD2 :
          LET out == _calculate(ms.C, ms.D1, d)
          IN  ms' = [ms EXCEPT !.pc = "idle", !.D2 = d, !.ret = TRUE,
                               !.pressure_mbar = out.pressure_mbar,
                               !.temperature_c = out.temperature_c]
    /\ UNCHANGED <<now, session, nsessions, sensor, prod, wk, timers>>

\* read(): a bus operation raises; the except clause returns False
MS_read_error ==
    /\ ms' = [ms EXCEPT !.pc = "idle", !.ret = FALSE]
    /\ ms' # ms
    /\ UNCHANGED <<now, session, nsessions, sensor, prod, wk, timers>>

---------------------------------------------------------------------------
(* Inputs *)

\* sensor.pressure() and sensor.temperature() after a successful read()
Pressures == {Q(101425, 100)}
Temps == {Q(2850, 100)}

\* the `since` argument of GET /api/data
Sinces == {0, 1540}

---------------------------------------------------------------------------
(* sensor_thread *)

ProdInit ==
    [pc |-> "init", timestamp |-> 0, read_ok |-> FALSE,
     pressure |-> Q(0, 1), temp |-> Q(0, 1), depth |-> Q(0, 1),
     baseline_offset |-> None, wake |-> 0, ticks |-> 0]

\* sensor = MS5837() succeeds, or raises and leaves sensor = None
P_init ==
    /\ prod.pc = "init"
    /\ \E s \in {"ok", "none"} : sensor' = s
    /\ prod' = [prod EXCEPT !.pc = "sleep"]
    /\ UNCHANGED <<now, session, nsessions, wk, timers, ms>>

\* the `if sensor and sensor.read()` branch: a compensated reading
RealReading(p, t) ==
    [prod EXCEPT !.pc = "check", !.timestamp = now, !.read_ok = TRUE,
                 !.ticks = @ + 1,
                 !.pressure = p, !.temp = t,
                 !.baseline_offset =
                     IF @ = None THEN Some(QSub(p, Q(101325, 100))) ELSE @,
                 !.depth = depth_mm(p)]

\* the else branch ("Demo mode"): values simulated from the elapsed time
DemoReading ==
    LET elapsed == IF session.start_time = None \/ session.start_time = Some(0)
                   THEN Q(0, 1) ELSE elapsed_minutes(session)
    IN  [prod EXCEPT !.pc = "check", !.timestamp = now, !.read_ok = FALSE,
                     !.ticks = @ + 1,
                     !.pressure = QSub(Q(111325, 100), QMul(elapsed, Q(5, 1000))),
                     !.temp = QAdd(Q(285, 10),
                                   QMul(Q(1, 10), QDiv(elapsed, QInt(60)))),
                     !.depth = QSub(QInt(1000), QMul(elapsed, Q(2, 100)))]

\* one pass of the loop body up to the status test, after time.sleep returned
P_tick ==
    /\ prod.pc = "sleep"
    /\ now >= prod.wake
    /\ prod.ticks < MaxTicks
    /\ \/ /\ sensor = "ok"
          /\ \E p \in Pressures, t \in Temps : prod' = RealReading(p, t)
       \/ prod' = DemoReading
    /\ UNCHANGED <<now, session, nsessions, sensor, wk, timers, ms>>

\* time.sleep(SAMPLE_INTERVAL_SEC) begins; the locals of the pass are dead
\* (each is assigned again before the next pass reads it)
Asleep ==
    [ProdInit EXCEPT !.pc = "sleep", !.wake = now + SAMPLE_INTERVAL_SEC,
                     !.baseline_offset = prod.baseline_offset,
                     !.ticks = prod.ticks]

\* if session.status in ("baseline", "testing")
P_check ==
    /\ prod.pc = "check"
    /\ prod' = IF session.status \in Active
               THEN [prod EXCEPT !.pc = "append"]
               ELSE Asleep
    /\ UNCHANGED <<now, session, nsessions, sensor, wk, timers, ms>>

\* session.add_reading(timestamp, pressure, temp, depth)
P_append ==
    /\ prod.pc = "append"
    /\ session' = add_reading(session, prod.timestamp, prod.pressure,
                              prod.temp, prod.depth)
    /\ prod' = Asleep
    /\ UNCHANGED <<now, nsessions, sensor, wk, timers, ms>>

---------------------------------------------------------------------------
(* Request handlers.  A worker is "idle" between requests; `made` is the   *)
(* id of the TestSession its api_start constructed and `at` the instance   *)
(* and its append count when get_readings_since began to iterate (the      *)
(* deque iterator's copy of the deque's mutation counter), `deque` being   *)
(* the content of that instance's deque then: it is what the iterator      *)
(* walks when an api_start has replaced the instance meanwhile, since the  *)
(* sensor loop appends to the instance the global names.  `calc` holds     *)
(* the locals of a calculate_leak_rate call in progress.                   *)

\* calculate_leak_rate: `it` is the mutation counter the iterator of the
\* temperature comprehension took; `seq` names the sample sequence the
\* start window was read from and `mixed` tells that a later read of the
\* call found another sequence (history)
CalcInit ==
    [caller |-> "", start_depth |-> Q(0, 1), end_depth |-> Q(0, 1),
     time_start |-> 0, elapsed_hrs |-> Q(0, 1), it |-> 0,
     seq |-> <<0, 0>>, mixed |-> FALSE]

WorkerInit ==
    [pc |-> "idle", made |-> 0, since |-> 0, new_readings |-> <<>>,
     elapsed_min |-> Q(0, 1), leak_rate |-> None, result |-> None,
     resp |-> None, at |-> <<0, 0>>, deque |-> <<>>, calc |-> CalcInit]

\* the sample sequence as it is now: the instance and its append count
SeqNow == <<session.id, session.appends>>

\* an uncaught exception leaves the handler: Flask answers 500
Raised(w) ==
    /\ wk[w].pc = "raised"
    /\ wk' = [wk EXCEPT ![w] = WorkerInit]
    /\ UNCHANGED <<now, session, nsessions, sensor, prod, timers, ms>>

\* calculate_leak_rate returns v to its caller, which holds it: api_stop as
\* the value to store in session.result, api_data in its local leak_rate
Return(w, caller, v) ==
    wk' = [wk EXCEPT ![w] =
              IF caller = "api_stop"
              THEN [@ EXCEPT !.pc = "stop_store", !.result = v,
                             !.calc = CalcInit]
              ELSE [@ EXCEPT !.pc = "data_resp", !.leak_rate = v,
                             !.calc = CalcInit]]

\* the call begins: if len(self.readings) < 60: return None
Calc_len(w, caller) ==
    IF TooFew(session.readings)
    THEN Return(w, caller, None)
    ELSE wk' = [wk EXCEPT ![w].pc = "calc_start",
                          ![w].calc = [CalcInit EXCEPT !.caller = caller]]

\* start_depth = statistics.mean of the d of list(self.readings)[:window]
Calc_start(w) ==
    /\ wk[w].pc = "calc_start"
    /\ wk' = [wk EXCEPT ![w].pc = "calc_end",
                        ![w].calc.start_depth =
                            MeanField(session.readings, "d", 1, window),
                        ![w].calc.seq = SeqNow]
    /\ UNCHANGED <<now, session, nsessions, sensor, prod, timers, ms>>

\* end_depth = statistics.mean of the d of list(self.readings)[-window:]
Calc_end(w) ==
    /\ wk[w].pc = "calc_end"
    /\ wk' = [wk EXCEPT ![w].pc = "calc_t0",
                        ![w].calc.end_depth =
                            LET n == Len(session.readings)
                            IN  MeanField(session.readings, "d",
                                          n - window + 1, n),
                        ![w].calc.mixed = @ \/ wk[w].calc.seq # SeqNow]
    /\ UNCHANGED <<now, session, nsessions, sensor, prod, timers, ms>>

\* time_start = list(self.readings)[0]["t"]
Calc_t0(w) ==
    /\ wk[w].pc = "calc_t0"
    /\ wk' = [wk EXCEPT ![w].pc = "calc_t1",
                        ![w].calc.time_start = session.readings[1].t,
                        ![w].calc.mixed = @ \/ wk[w].calc.seq # SeqNow]
    /\ UNCHANGED <<now, session, nsessions, sensor, prod, timers, ms>>

\* time_end = list(self.readings)[-1]["t"]; elapsed_hrs; the 6-minute test
Calc_t1(w) ==
    /\ wk[w].pc = "calc_t1"
    /\ LET time_end    == session.readings[Len(session.readings)].t
           elapsed_hrs == Q(time_end - wk[w].calc.time_start, 3600)
       IN  IF TooShort(elapsed_hrs)
           THEN Return(w, wk[w].calc.caller, None)
           ELSE wk' = [wk EXCEPT ![w].pc = "calc_temp_iter",
                                 ![w].calc.elapsed_hrs = elapsed_hrs,
                                 ![w].calc.mixed = @ \/ wk[w].calc.seq # SeqNow]
    /\ UNCHANGED <<now, session, nsessions, sensor, prod, timers, ms>>

\* [r["temp"] for r in self.readings]: the iterator over the deque is made
Calc_temp_iter(w) ==
    /\ wk[w].pc = "calc_temp_iter"
    /\ wk' = [wk EXCEPT ![w].pc = "calc_temp",
                        ![w].calc.it = session.appends,
                        ![w].calc.mixed = @ \/ wk[w].calc.seq # SeqNow]
    /\ UNCHANGED <<now, session, nsessions, sensor, prod, timers, ms>>

\* the comprehension runs to its end and the call returns its dict, unless
\* the deque was appended to since the iterator was made: the iterator's
\* next step then raises RuntimeError("deque mutated during iteration")
Calc_temp(w) ==
    /\ wk[w].pc = "calc_temp"
    /\ IF session.appends # wk[w].calc.it
       THEN wk' = [wk EXCEPT ![w].pc = "raised", ![w].calc = CalcInit]
       ELSE Return(w, wk[w].calc.caller,
                   LeakResult(wk[w].calc.start_depth, wk[w].calc.end_depth,
                              wk[w].calc.elapsed_hrs,
                              MeanField(session.readings, "temp", 1,
                                        Len(session.readings))))
    /\ UNCHANGED <<now, session, nsessions, sensor, prod, timers, ms>>

Sleeping(owner) ==
    [pc |-> "sleep", wake |-> now + BASELINE_DURATION_MIN * 60, owner |-> owner]

\* api_start: session = TestSession()
Start_new(w) ==
    /\ wk[w].pc = "idle"
    /\ nsessions <= MaxStarts
    /\ session' = TestSession(nsessions + 1)
    /\ nsessions' = nsessions + 1
    /\ wk' = [wk EXCEPT ![w] = [WorkerInit EXCEPT !.pc = "start_status",
                                                  !.made = nsessions + 1]]
    /\ UNCHANGED <<now, sensor, prod, timers, ms>>

\* api_start: session.status = "baseline"
Start_status(w) ==
    /\ wk[w].pc = "start_status"
    /\ session' = [session EXCEPT !.status = "baseline"]
    /\ wk' = [wk EXCEPT ![w].pc = "start_time"]
    /\ UNCHANGED <<now, nsessions, sensor, prod, timers, ms>>

\* api_start: session.start_time = time.time(); the switch_to_testing thread
\* is started and begins its sleep; the handler returns {"ok": True}
Start_time(w) ==
    /\ wk[w].pc = "start_time"
    /\ session' = [session EXCEPT !.start_time = Some(now)]
    /\ timers' = Append(timers, Sleeping(wk[w].made))
    /\ wk' = [wk EXCEPT ![w] = WorkerInit]
    /\ UNCHANGED <<now, nsessions, sensor, prod, ms>>

\* api_stop: session.status = "complete"
Stop_status(w) ==
    /\ wk[w].pc = "idle"
    /\ session' = [session EXCEPT !.status = "complete"]
    /\ wk' = [wk EXCEPT ![w] = [WorkerInit EXCEPT !.pc = "stop_calc"]]
    /\ UNCHANGED <<now, nsessions, sensor, prod, timers, ms>>

\* api_stop: the right-hand side session.calculate_leak_rate() is called
Stop_calc(w) ==
    /\ wk[w].pc = "stop_calc"
    /\ Calc_len(w, "api_stop")
    /\ UNCHANGED <<now, session, nsessions, sensor, prod, timers, ms>>

\* api_stop: the store to session.result; the record is written to the data
\* directory and the handler returns {"ok": True, "result": session.result}
Stop_store(w) ==
    /\ wk[w].pc = "stop_store"
    /\ session' = [session EXCEPT !.result = wk[w].result]
    /\ wk' = [wk EXCEPT ![w] = WorkerInit]
    /\ UNCHANGED <<now, nsessions, sensor, prod, timers, ms>>

\* s[-k:]
LastN(s, k) == IF Len(s) <= k THEN s ELSE SubSeq(s, Len(s) - k + 1, Len(s))

\* api_data: session.get_readings_since(since) is called and its list
\* comprehension makes the iterator over self.readings
Data_iter(w) ==
    /\ wk[w].pc = "idle"
    /\ \E since \in Sinces :
          wk' = [wk EXCEPT ![w] = [WorkerInit EXCEPT
                    !.pc = "data_iter", !.since = since, !.at = SeqNow,
                    !.deque = session.readings]]
    /\ UNCHANGED <<now, session, nsessions, sensor, prod, timers, ms>>

\* a read that hands the readings over and removes them from the session
Data_read_Draining(w) ==
    /\ wk[w].pc = "data_iter"
    /\ wk[w].at = SeqNow
    /\ wk' = [wk EXCEPT ![w].pc = "data_elapsed",
                        ![w].new_readings =
                            get_readings_since(session, wk[w].since)]
    /\ session' = [session EXCEPT !.readings =
                      LET Kept(r) == ~(r.t > wk[w].since)
                      IN  SelectSeq(@, Kept)]
    /\ UNCHANGED <<now, nsessions, sensor, prod, timers, ms>>

\* api_data: the comprehension runs to its end, new_readings = its list,
\* unless the deque was appended to since the iterator was made: the
\* iterator's next step then raises RuntimeError.  The deque is that of
\* `self`, the instance the global named when the method was called.
Data_read(w) ==
    /\ wk[w].pc = "data_iter"
    /\ wk' = IF wk[w].at = SeqNow
             THEN [wk EXCEPT ![w].pc = "data_elapsed",
                             ![w].new_readings =
                                 get_readings_since(session, wk[w].since)]
             ELSE IF wk[w].at[1] = session.id
             THEN [wk EXCEPT ![w].pc = "raised"]
             ELSE [wk EXCEPT ![w].pc = "data_elapsed",
                             ![w].new_readings =
                                 get_readings_since(
                                     [readings |-> wk[w].deque], wk[w].since)]
    /\ UNCHANGED <<now, session, nsessions, sensor, prod, timers, ms>>

\* api_data: elapsed_min = session.elapsed_minutes()
Data_elapsed(w) ==
    /\ wk[w].pc = "data_elapsed"
    /\ wk' = [wk EXCEPT ![w].pc = "data_check",
                        ![w].elapsed_min = elapsed_minutes(session)]
    /\ UNCHANGED <<now, session, nsessions, sensor, prod, timers, ms>>

\* api_data: if session.status == "testing" and elapsed_min > 6
Data_check(w) ==
    /\ wk[w].pc = "data_check"
    /\ wk' = [wk EXCEPT ![w].pc =
                 IF /\ session.status = "testing"
                    /\ QLt(QInt(PreviewAfterMin), wk[w].elapsed_min)
                 THEN "data_calc" ELSE "data_resp"]
    /\ UNCHANGED <<now, session, nsessions, sensor, prod, timers, ms>>

\* api_data: leak_rate = session.calculate_leak_rate() is called
Data_calc(w) ==
    /\ wk[w].pc = "data_calc"
    /\ Calc_len(w, "api_data")
    /\ UNCHANGED <<now, session, nsessions, sensor, prod, timers, ms>>

\* api_data: the response dict, "status": session.status
Data_resp_status(w) ==
    /\ wk[w].pc = "data_resp"
    /\ wk' = [wk EXCEPT ![w].pc = "data_total",
                        ![w].resp = Some([status |-> session.status])]
    /\ UNCHANGED <<now, session, nsessions, sensor, prod, timers, ms>>

\* api_data: "total_readings": len(session.readings)
Data_resp_total(w) ==
    /\ wk[w].pc = "data_total"
    /\ wk' = [wk EXCEPT ![w].pc = "data_result",
                        ![w].resp = Some(
                            [status |-> Val(wk[w].resp).status,
                             total_readings |-> Len(session.readings)])]
    /\ UNCHANGED <<now, session, nsessions, sensor, prod, timers, ms>>

\* api_data: "result": session.result; the response is complete
Data_resp_result(w) ==
    /\ wk[w].pc = "data_result"
    /\ wk' = [wk EXCEPT ![w].pc = "data_done",
                        ![w].resp = Some(
                            [status |-> Val(wk[w].resp).status,
                             total_readings |-> Val(wk[w].resp).total_readings,
                             result |-> session.result])]
    /\ UNCHANGED <<now, session, nsessions, sensor, prod, timers, ms>>

\* the entries of the response computed from the handler's locals:
\* "new_readings": new_readings[-300:], "latest", "leak_rate"
RespNewReadings(w) == LastN(wk[w].new_readings, ReadingsCap)
RespLatest(w) ==
    IF wk[w].new_readings = <<>> THEN None
    ELSE Some(wk[w].new_readings[Len(wk[w].new_readings)])
RespLeakRate(w) == wk[w].leak_rate

\* api_data: return jsonify(...)
Data_return(w) ==
    /\ wk[w].pc = "data_done"
    /\ wk' = [wk EXCEPT ![w] = WorkerInit]
    /\ UNCHANGED <<now, session, nsessions, sensor, prod, timers, ms>>

---------------------------------------------------------------------------
(* switch_to_testing *)

\* time.sleep(BASELINE_DURATION_MIN * 60) has returned:
\* if session.status == "baseline"
T_check(i) ==
    /\ timers[i].pc = "sleep"
    /\ now >= timers[i].wake
    /\ timers' = [timers EXCEPT ![i].pc =
                     IF session.status = "baseline" THEN "set" ELSE "done"]
    /\ UNCHANGED <<now, session, nsessions, sensor, prod, wk, ms>>

\* session.status = "testing"
T_set(i) ==
    /\ timers[i].pc = "set"
    /\ session' = [session EXCEPT !.status = "testing"]
    /\ timers' = [timers EXCEPT ![i].pc = "done"]
    /\ UNCHANGED <<now, nsessions, sensor, prod, wk, ms>>

---------------------------------------------------------------------------
(* The wall clock *)

Advance ==
    /\ \E t \in TimePoints : t > now /\ now' = t
    /\ UNCHANGED <<session, nsessions, sensor, prod, wk, timers, ms>>

---------------------------------------------------------------------------
(* The program from its start.  With MaxTicks passes of the sensor loop a  *)
(* session holds fewer than MinReadings readings, so the                   *)
(* calculate_leak_rate call of api_stop returns at its length test.        *)

Init ==
    /\ now = CHOOSE t \in TimePoints : \A u \in TimePoints : t <= u
    /\ session = TestSession(1)
    /\ nsessions = 1
    /\ sensor = "none"
    /\ prod = ProdInit
    /\ wk = [w \in Workers |-> WorkerInit]
    /\ timers = <<>>
    /\ ms = MS5837(CHOOSE C \in Coefficients : C[2] # 0)

Next ==
    \/ P_init
    \/ P_tick
    \/ P_check
    \/ P_append
    \/ \E w \in Control : Start_new(w)
    \/ \E w \in Control : Start_status(w)
    \/ \E w \in Control : Start_time(w)
    \/ \E w \in Control : Stop_status(w)
    \/ \E w \in Control : Stop_calc(w)
    \/ \E w \in Control : Stop_store(w)
    \/ \E i \in 1..Len(timers) : T_check(i)
    \/ \E i \in 1..Len(timers) : T_set(i)
    \/ Advance

Spec == Init /\ [][Next]_vars

---------------------------------------------------------------------------
(* A test that has been running: api_start was served at time RunStart,    *)
(* and the sensor loop has since appended n readings, dt seconds apart.    *)

\* the earliest instant of the clock
RunStart == CHOOSE t \in TimePoints : \A u \in TimePoints : t <= u

\* <<n, dt, real>>: real when the readings came from the sensor, and not
\* when the loop ran without one
RunShapes == {<<59, 7, FALSE>>, <<60, 6, TRUE>>, <<61, 6, TRUE>>,
              <<61, 15, FALSE>>}

\* runs that have filled the api_data cap and next fill the deque
FullShapes == {<<ReadingsCap, 1, TRUE>>, <<maxlen - 1, 6, FALSE>>}

\* what a pass of the loop at time t hands to add_reading
RunPressure(real, t) ==
    IF real THEN Q(101425, 100)
    ELSE QSub(Q(111325, 100), QMul(Q(t - RunStart, 60), Q(5, 1000)))
RunTemp(real, t) ==
    IF real THEN Q(2850, 100)
    ELSE QAdd(Q(285, 10), QMul(Q(1, 10), QDiv(Q(t - RunStart, 60), QInt(60))))
RunDepth(real, t) ==
    IF real THEN depth_mm(Q(101425, 100))
    ELSE QSub(QInt(1000), QMul(Q(t - RunStart, 60), Q(2, 100)))

\* the session after n add_reading calls, the i-th at RunStart + i * dt
RunSession(n, dt, real) ==
    LET kept == IF n > maxlen THEN maxlen ELSE n
        At(i) == RunStart + (n - kept + i) * dt
    IN  [TestSession(2) EXCEPT
            !.start_time = Some(RunStart),
            !.status = "baseline",
            !.appends = n,
            !.readings = [i \in 1..kept |->
                Reading(At(i), RunPressure(real, At(i)), RunTemp(real, At(i)),
                        RunDepth(real, At(i)))]]

RunInitOf(shapes) ==
    \E shape \in shapes :
        LET n  == shape[1]
            dt == shape[2]
            real == shape[3]
            promoted == n * dt >= BASELINE_DURATION_MIN * 60
        IN  /\ now = RunStart + n * dt
            /\ session = [RunSession(n, dt, real) EXCEPT
                             !.status = IF promoted THEN "testing" ELSE "baseline"]
            /\ nsessions = 2
            /\ sensor = IF real THEN "ok" ELSE "none"
            /\ prod = [ProdInit EXCEPT
                          !.pc = "sleep", !.wake = now + SAMPLE_INTERVAL_SEC,
                          !.baseline_offset =
                              IF real THEN Some(Q(1, 1)) ELSE None]
            /\ wk = [w \in Workers |-> WorkerInit]
            /\ timers = <<[pc |-> IF promoted THEN "done" ELSE "sleep",
                           wake |-> RunStart + BASELINE_DURATION_MIN * 60,
                           owner |-> 2]>>
            /\ ms = MS5837(CHOOSE C \in Coefficients : C[2] # 0)

\* time passes until the sensor loop's sleep is over
RunAdvance ==
    /\ prod.pc = "sleep"
    /\ now < prod.wake
    /\ now' = prod.wake
    /\ UNCHANGED <<session, nsessions, sensor, prod, wk, timers, ms>>

(* the sensor loop and a stop request *)
RunInit == RunInitOf(RunShapes)

RunNext ==
    \/ P_tick
    \/ P_check
    \/ P_append
    \/ \E w \in Control : Stop_status(w)
    \/ \E w \in Control : Stop_calc(w)
    \/ \E w \in Control : Stop_store(w)
    \/ \E w \in Control : Calc_start(w)
    \/ \E w \in Control : Calc_end(w)
    \/ \E w \in Control : Calc_t0(w)
    \/ \E w \in Control : Calc_t1(w)
    \/ \E w \in Control : Calc_temp_iter(w)
    \/ \E w \in Control : Calc_temp(w)
    \/ \E w \in Control : Raised(w)
    \/ RunAdvance

SpecRun == RunInit /\ [][RunNext]_vars

(* the sensor loop and data queries *)
FullInit == RunInitOf(FullShapes)

FullNext ==
    \/ P_tick
    \/ P_check
    \/ P_append
    \/ \E w \in Query : Data_iter(w)
    \/ \E w \in Query : Data_read(w)
    \/ \E w \in Query : Data_elapsed(w)
    \/ \E w \in Query : Data_check(w)
    \/ \E w \in Query : Data_calc(w)
    \/ \E w \in Query : Calc_start(w)
    \/ \E w \in Query : Calc_end(w)
    \/ \E w \in Query : Calc_t0(w)
    \/ \E w \in Query : Calc_t1(w)
    \/ \E w \in Query : Calc_temp_iter(w)
    \/ \E w \in Query : Calc_temp(w)
    \/ \E w \in Query : Raised(w)
    \/ \E w \in Query : Data_resp_status(w)
    \/ \E w \in Query : Data_resp_total(w)
    \/ \E w \in Query : Data_resp_result(w)
    \/ \E w \in Query : Data_return(w)
    \/ RunAdvance

SpecFull == FullInit /\ [][FullNext]_vars

---------------------------------------------------------------------------
(* A test fed a steady series: n readings dt seconds apart, all at 20 C    *)
(* and at one depth, except that the first reading is k/100 mm deeper.     *)

\* <<n, dt, k>>.  With n = 121 and dt = 5 the readings span 10 minutes and
\* the leak rate is k/500 - 0.09 mm/hr: 0.1 at k = 95, 0.5 at k = 295 and
\* 2.0 at k = 1045
AnalyzeShapes ==
    {<<120, 1, 0>>, <<120, 3, 0>>, <<121, 3, 0>>, <<120, 4, 0>>}
    \cup {<<121, 5, k>> : k \in {-5, 45, 94, 95, 96, 294, 295, 296,
                                  1044, 1045, 1046, 1500}}

\* the session after n add_reading calls, the i-th at RunStart + i * dt
AnalyzeSession(n, dt, k) ==
    [TestSession(2) EXCEPT
        !.start_time = Some(RunStart),
        !.status = "baseline",
        !.appends = n,
        !.readings = [i \in 1..n |->
            Reading(RunStart + i * dt, Q(101425, 100), Q(2000, 100),
                    QAdd(depth_mm(Q(101425, 100)),
                         Q(IF i = 1 THEN k ELSE 0, 100)))]]

AnalyzeInit ==
    \E shape \in AnalyzeShapes :
        LET n  == shape[1]
            dt == shape[2]
            promoted == n * dt >= BASELINE_DURATION_MIN * 60
        IN  /\ now = RunStart + n * dt
            /\ session = [AnalyzeSession(n, dt, shape[3]) EXCEPT
                             !.status = IF promoted THEN "testing" ELSE "baseline"]
            /\ nsessions = 2
            /\ sensor = "ok"
            /\ prod = [ProdInit EXCEPT
                          !.pc = "sleep", !.wake = now + SAMPLE_INTERVAL_SEC,
                          !.baseline_offset = Some(Q(1, 1))]
            /\ wk = [w \in Workers |-> WorkerInit]
            /\ timers = <<[pc |-> IF promoted THEN "done" ELSE "sleep",
                           wake |-> RunStart + BASELINE_DURATION_MIN * 60,
                           owner |-> 2]>>
            /\ ms = MS5837(CHOOSE C \in Coefficients : C[2] # 0)

(* the sensor loop and a stop request *)
SpecAnalyze == AnalyzeInit /\ [][RunNext]_vars

---------------------------------------------------------------------------
(* The sensor driver alone: an MS5837 whose read() is called repeatedly    *)

SensorInit ==
    /\ now = RunStart
    /\ session = TestSession(1)
    /\ nsessions = 1
    /\ sensor = "ok"
    /\ prod = ProdInit
    /\ wk = [w \in Workers |-> WorkerInit]
    /\ timers = <<>>
    /\ \E C \in Coefficients : ms = MS5837(C)

SensorNext ==
    \/ MS_read_D1
    \/ MS_read_D2
    \/ MS_read_error

SpecSensor == SensorInit /\ [][SensorNext]_vars

---------------------------------------------------------------------------
(* The program once its start requests are over: none, one (served at the  *)
(* first instant of the clock) or two (the second served at the next       *)
(* instant, before the first one's switch_to_testing has woken).  Stop     *)
(* requests, data queries, the timers and the clock run; the sensor loop,  *)
(* which writes neither status nor start_time, has not been scheduled yet. *)

\* the instant of the second api_start
SecondStart == CHOOSE t \in TimePoints :
                   t > RunStart /\ \A u \in TimePoints : u > RunStart => t <= u

\* the active session and the switch_to_testing threads after k api_start
\* requests
StartedSession(k) ==
    IF k = 0 THEN TestSession(1)
    ELSE [TestSession(k + 1) EXCEPT
             !.status = "baseline",
             !.start_time = Some(IF k = 1 THEN RunStart ELSE SecondStart)]
StartedTimers(k) ==
    [i \in 1..k |->
        [pc |-> "sleep", owner |-> i + 1,
         wake |-> (IF i = 1 THEN RunStart ELSE SecondStart)
                  + BASELINE_DURATION_MIN * 60]]

PreviewInit ==
    \E k \in 0..MaxStarts :
        /\ now = IF k = 2 THEN SecondStart ELSE RunStart
        /\ session = StartedSession(k)
        /\ nsessions = k + 1
        /\ sensor = "none"
        /\ prod = ProdInit
        /\ wk = [w \in Workers |-> WorkerInit]
        /\ timers = StartedTimers(k)
        /\ ms = MS5837(CHOOSE C \in Coefficients : C[2] # 0)

PreviewNext ==
    \/ \E w \in Control : Stop_status(w)
    \/ \E w \in Control : Stop_calc(w)
    \/ \E w \in Control : Stop_store(w)
    \/ \E w \in Query : Data_iter(w)
    \/ \E w \in Query : Data_read(w)
    \/ \E w \in Query : Data_elapsed(w)
    \/ \E w \in Query : Data_check(w)
    \/ \E w \in Query : Data_calc(w)
    \/ \E w \in Query : Data_resp_status(w)
    \/ \E w \in Query : Data_resp_total(w)
    \/ \E w \in Query : Data_resp_result(w)
    \/ \E w \in Query : Data_return(w)
    \/ \E i \in 1..Len(timers) : T_check(i)
    \/ \E i \in 1..Len(timers) : T_set(i)
    \/ Advance

SpecPreview == PreviewInit /\ [][PreviewNext]_vars

---------------------------------------------------------------------------
(* The program from its start, with a clock that reaches the instant at    *)
(* which each switch_to_testing thread's sleep ends, and with the threads  *)
(* that are ready to run getting to run: a switch_to_testing thread whose  *)
(* sleep is over performs its test and its assignment, and time passes.    *)
(* The sensor loop, which writes neither status nor start_time, has not    *)
(* been scheduled yet.                                                     *)

\* time passes, up to an instant of the clock or the end of a timer's sleep
PromoteAdvance ==
    /\ \E t \in TimePoints \cup {timers[i].wake : i \in 1..Len(timers)} :
           t > now /\ now' = t
    /\ UNCHANGED <<session, nsessions, sensor, prod, wk, timers, ms>>

PromoteNext ==
    \/ \E w \in Control : Start_new(w)
    \/ \E w \in Control : Start_status(w)
    \/ \E w \in Control : Start_time(w)
    \/ \E w \in Control : Stop_status(w)
    \/ \E w \in Control : Stop_calc(w)
    \/ \E w \in Control : Stop_store(w)
    \/ \E i \in 1..Len(timers) : T_check(i)
    \/ \E i \in 1..Len(timers) : T_set(i)
    \/ PromoteAdvance

\* the operating system schedules every switch_to_testing thread that can run
PromoteFair ==
    /\ WF_vars(PromoteAdvance)
    /\ \A i \in 1..MaxStarts :
          /\ WF_vars(i <= Len(timers) /\ T_check(i))
          /\ WF_vars(i <= Len(timers) /\ T_set(i))

SpecPromote == Init /\ [][PromoteNext]_vars /\ PromoteFair

---------------------------------------------------------------------------
(* A test a few readings old, then start requests and data queries served  *)
(* together, with the timers and the clock.  The sensor loop is asleep.    *)

\* <<n, dt, real>> as in RunShapes
SwapShapes == {<<2, 1, TRUE>>, <<2, 6, FALSE>>}

SwapInit == RunInitOf(SwapShapes)

SwapNext ==
    \/ \E w \in Control : Start_new(w)
    \/ \E w \in Control : Start_status(w)
    \/ \E w \in Control : Start_time(w)
    \/ \E w \in Query : Data_iter(w)
    \/ \E w \in Query : Data_read(w)
    \/ \E w \in Query : Data_elapsed(w)
    \/ \E w \in Query : Data_check(w)
    \/ \E w \in Query : Data_calc(w)
    \/ \E w \in Query : Data_resp_status(w)
    \/ \E w \in Query : Data_resp_total(w)
    \/ \E w \in Query : Data_resp_result(w)
    \/ \E w \in Query : Data_return(w)
    \/ \E i \in 1..Len(timers) : T_check(i)
    \/ \E i \in 1..Len(timers) : T_set(i)
    \/ Advance

SpecSwap == SwapInit /\ [][SwapNext]_vars

---------------------------------------------------------------------------
(* Step predicates used by the claims *)

StartBegins == \E w \in Control : wk[w].pc = "idle" /\ wk'[w].pc = "start_status"
StopBegins  == \E w \in Control : wk[w].pc = "idle" /\ wk'[w].pc = "stop_calc"

\* an add_reading call on the instance that stays the active one
Appended == session'.id = session.id /\ session'.appends # session.appends

\* timer i performs its assignment session.status = "testing"
Promotes(i) == timers[i].pc = "set" /\ timers'[i].pc = "done"

---------------------------------------------------------------------------
(* Claims *)

(* C1: a startTest issued while the session is in Baseline or Testing is   *)
(* rejected and leaves the existing session as it was: same instance, same *)
(* state, startTime, samples and result.                                   *)
C1_StartWhileActiveLeavesSession ==
    [][(StartBegins /\ session.status \in Active) => session' = session]_vars

(* C2: a stopTest issued while the session is Idle or Complete is rejected *)
(* and changes neither the state nor the stored result.                    *)
C2_StopWhileInactiveLeavesSession ==
    [][(StopBegins /\ session.status \notin Active)
          => /\ session'.status = session.status
             /\ session'.result = session.result]_vars

(* C3: a session moves from Baseline to Testing only by the promotion that *)
(* its own startTest scheduled, and not before the baseline duration has   *)
(* passed since its own startTime; a timer left over from a superseded     *)
(* session does not change the state of the new session.                   *)
C3_PromotionOnlyByOwnTimer ==
    [][(/\ session'.id = session.id
        /\ session.status = "baseline"
        /\ session'.status = "testing")
          => \E i \in 1..Len(timers) :
                /\ Promotes(i)
                /\ timers[i].owner = session.id
                /\ session.start_time # None
                /\ now >= Val(session.start_time)
                              + BASELINE_DURATION_MIN * 60]_vars

(* C4: a sample is appended to a session only while that session's state   *)
(* is Baseline or Testing at the moment of the append.                     *)
C4_AppendOnlyWhileActive ==
    [][Appended => session.status \in Active]_vars

(* C5: once a session is Complete, its state never becomes Testing.        *)
C5_CompleteNeverTesting ==
    [][(session.status = "complete" /\ session'.id = session.id)
          => session'.status # "testing"]_vars

(* C7: a tick on which sensor.read() returned False appends no sample.     *)
C7_FailedReadAppendsNothing ==
    [][Appended => ~(sensor = "ok" /\ ~prod.read_ok)]_vars

(* C6: the sample sequence never holds more than its capacity; an append   *)
(* to a sequence below capacity adds the sample at the end and keeps every *)
(* earlier sample in place, and an append at capacity drops exactly the    *)
(* oldest sample and keeps the others in order, so that the sequence holds *)
(* the most recent min(appends, capacity) samples.                         *)
C6_BoundedFifo ==
    /\ [](/\ Len(session.readings) <= maxlen
          /\ Len(session.readings) =
                 IF session.appends < maxlen THEN session.appends ELSE maxlen)
    /\ [][Appended =>
            LET old == session.readings
                new == session'.readings
            IN  /\ session'.appends = session.appends + 1
                /\ new[Len(new)].t = prod.timestamp
                /\ IF Len(old) < maxlen
                   THEN /\ Len(new) = Len(old) + 1
                        /\ \A i \in 1..Len(old) : new[i] = old[i]
                   ELSE /\ Len(new) = maxlen
                        /\ \A i \in 1..(maxlen - 1) : new[i] = old[i + 1]]_vars

\* an append has arrived at a full sequence and evicted the oldest sample
C6_Witness ==
    /\ session.appends > maxlen
    /\ Len(session.readings) = maxlen
    /\ session.readings[maxlen].t = now

(* C8: calculate_leak_rate returns no verdict when the session holds fewer *)
(* than 60 samples or when its last and first timestamps are less than 6   *)
(* minutes (360 s) apart, and returns a verdict otherwise.                 *)
C8_VerdictIffEnoughData ==
    [][\A w \in Control :
          (wk[w].pc # "stop_store" /\ wk'[w].pc = "stop_store") =>
              LET rs == session.readings
              IN  (wk'[w].result = None)
                  <=> \/ Len(rs) < 60
                      \/ rs[Len(rs)].t - rs[1].t < 6 * 60]_vars

\* a verdict has been computed from 61 samples spanning exactly 6 minutes
C8_Witness ==
    \E w \in Control :
        /\ wk[w].pc = "stop_store"
        /\ wk[w].result # None
        /\ Len(session.readings) = 61
        /\ session.readings[61].t - session.readings[1].t = 6 * 60

\* the query has its complete response and the buffer is as it read it
Answered(w) ==
    /\ wk[w].pc = "data_done"
    /\ wk[w].at = <<session.id, session.appends>>

\* the indices of the stored samples newer than the query's `since`
Newer(w) ==
    {i \in 1..Len(session.readings) : session.readings[i].t > wk[w].since}

(* C9, as claimed: the response holds every stored sample with timestamp > *)
(* since and no sample with timestamp <= since, however many qualify.      *)
C9_AllNewerReturned ==
    \A w \in Query :
        Answered(w) =>
            /\ \A i \in Newer(w) :
                  \E j \in 1..Len(RespNewReadings(w)) :
                      RespNewReadings(w)[j] = session.readings[i]
            /\ \A j \in 1..Len(RespNewReadings(w)) :
                  RespNewReadings(w)[j].t > wk[w].since

(* C9, amended: the response holds no sample with timestamp <= since, and  *)
(* holds the most recent 300 of the stored samples with timestamp > since, *)
(* in order: all of them when at most 300 qualify.                         *)
C9_NewestNewerReturned ==
    \A w \in Query :
        Answered(w) =>
            LET resp == RespNewReadings(w)
                k    == Cardinality(Newer(w))
                m    == IF k < 300 THEN k ELSE 300
                \* the m largest indices of Newer(w)
                kept == {i \in Newer(w) :
                            Cardinality({h \in Newer(w) : h > i}) < m}
            IN  /\ Len(resp) = m
                /\ \A j \in 1..m : resp[j].t > wk[w].since
                /\ \A j \in 1..m :
                      \E i \in kept :
                          /\ resp[j] = session.readings[i]
                          /\ Cardinality({h \in kept : h <= i}) = j

\* more than 300 stored samples are newer than `since`; 300 are returned
C9_Witness ==
    \E w \in Query :
        /\ Answered(w)
        /\ Cardinality(Newer(w)) > 300
        /\ Len(RespNewReadings(w)) = 300

(* C10: a query does not modify the session, and as long as no sample was  *)
(* appended and no new session started since a query read the samples, a   *)
(* query with the same `since` reads the same samples.                     *)
C10_ReadStable ==
    /\ [](\A w \in Query :
            (/\ wk[w].pc \notin {"idle", "data_iter", "raised"}
             /\ wk[w].at = <<session.id, session.appends>>)
                => LET again == get_readings_since(session, wk[w].since)
                   IN  again = wk[w].new_readings)
    /\ [][\A w \in Query : wk'[w] # wk[w] => session' = session]_vars

\* a query has read a non-empty, proper part of the samples and the session
\* has not changed since
C10_Witness ==
    \E w \in Query :
        /\ Answered(w)
        /\ wk[w].new_readings # <<>>
        /\ Len(wk[w].new_readings) < Len(session.readings)

(* C11: once the active session has left Idle, no step makes the state of  *)
(* the active session Idle again, the steps inside a later api_start       *)
(* included.                                                               *)
C11_IdleNeverReentered ==
    [][session.status # "idle" => session'.status # "idle"]_vars

\* the sensor loop computes the values of a pass in its else branch
SimulatedTick == prod.pc = "sleep" /\ prod'.pc = "check" /\ ~prod'.read_ok

\* the keys of a stored reading that hold the measurement itself
MeasurementKeys == {"t", "p", "temp", "d"}

(* C12: the sensor loop simulates the values of a pass only when the       *)
(* sensor failed at startup (sensor is None), and every reading stored     *)
(* from a simulated pass carries, besides the measurement, a field that    *)
(* marks it as simulated.                                                  *)
C12_SimulatedOnlyDegradedAndMarked ==
    [][/\ SimulatedTick => sensor = "none"
       /\ (Appended /\ ~prod.read_ok) =>
             LET r == session'.readings[Len(session'.readings)]
             IN  DOMAIN r \ MeasurementKeys # {}]_vars

\* calculate_leak_rate returns to api_stop
StopCalcReturns(w) == wk[w].pc # "stop_store" /\ wk'[w].pc = "stop_store"

\* every reading is at 20 C and at the depth of the first
Steady20(rs) ==
    \A i \in 1..Len(rs) : rs[i].temp = 2000 /\ rs[i].d = rs[1].d

\* consecutive readings are dt seconds apart
Apart(rs, dt) == \A i \in 2..Len(rs) : rs[i].t - rs[i - 1].t = dt

\* the dict v is a Pass verdict whose leak rate is minus the evaporation
\* rate at 20 C, 0.05 + (20 - 15) * 0.008 = 0.09 mm/hr
PassAtMinusEvaporation(v) ==
    /\ v # None
    /\ Val(v).leak_rate_mm_hr = -90
    /\ Val(v).verdict = "PASS"

(* C13, as claimed: a session fed 120 samples at 1 Hz with constant depth  *)
(* and constant temperature 20 C, then analysed, yields a Pass verdict     *)
(* whose leak rate is minus the evaporation rate.                          *)
C13_SteadyOneHertzPasses ==
    [][\A w \in Control :
          (/\ StopCalcReturns(w)
           /\ Len(session.readings) = 120
           /\ Steady20(session.readings)
           /\ Apart(session.readings, 1))
              => PassAtMinusEvaporation(wk'[w].result)]_vars

(* C13, amended: a session fed 120 samples with constant depth and         *)
(* constant temperature 20 C, then analysed, yields a Pass verdict whose   *)
(* leak rate is minus the evaporation rate when the samples span at least  *)
(* 6 minutes, and no verdict when they span less, as 120 samples at 1 Hz   *)
(* (119 s) do.                                                             *)
C13_SteadyPassesWhenLongEnough ==
    [][\A w \in Control :
          (/\ StopCalcReturns(w)
           /\ Len(session.readings) = 120
           /\ Steady20(session.readings))
              => LET rs == session.readings
                 IN  /\ rs[120].t - rs[1].t >= 6 * 60
                            => PassAtMinusEvaporation(wk'[w].result)
                     /\ rs[120].t - rs[1].t < 6 * 60
                            => wk'[w].result = None
                     /\ Apart(rs, 1) => wk'[w].result = None]_vars

\* a verdict has been computed from 120 steady samples 4 s apart
C13_Witness ==
    \E w \in Control :
        /\ wk[w].pc = "stop_store"
        /\ PassAtMinusEvaporation(wk[w].result)
        /\ Len(session.readings) = 120
        /\ Steady20(session.readings)
        /\ Apart(session.readings, 4)

(* C15: the classification is a total function of the leak rate with       *)
(* exclusive upper bounds: below 0.1 Pass (every negative rate included),  *)
(* from 0.1 and below 0.5 Borderline, from 0.5 and below 2.0 Leak, from    *)
(* 2.0 MajorLeak.                                                          *)
C15_ClassificationThresholds ==
    [][\A w \in Control :
          (wk[w].pc = "calc_temp" /\ wk'[w].pc = "stop_store") =>
              LET rs   == session.readings
                  rate == leak_rate_mm_hr(wk[w].calc.start_depth,
                                          wk[w].calc.end_depth,
                                          wk[w].calc.elapsed_hrs,
                                          MeanField(rs, "temp", 1, Len(rs)))
                  v    == Val(wk'[w].result).verdict
                  lt(a, b) == QSub(rate, Q(a, b)).s < 0
              IN  /\ v \in {"PASS", "BORDERLINE", "LEAK", "MAJOR LEAK"}
                  /\ rate.s < 0 => v = "PASS"
                  /\ v = "PASS" <=> lt(1, 10)
                  /\ v = "BORDERLINE" <=> ~lt(1, 10) /\ lt(5, 10)
                  /\ v = "LEAK" <=> ~lt(5, 10) /\ lt(2, 1)
                  /\ v = "MAJOR LEAK" <=> ~lt(2, 1)]_vars

\* a leak rate of exactly 0.5 mm/hr has been classified as Leak
C15_Witness ==
    \E w \in Control :
        /\ wk[w].pc = "stop_store"
        /\ wk[w].result # None
        /\ Val(wk[w].result).leak_rate_mm_hr = 500
        /\ Val(wk[w].result).net_loss_mm = 8
        /\ Val(wk[w].result).verdict = "LEAK"
        /\ session.appends = 121

\* read() has run _calculate and returns True
Compensated == ms.pc = "d1" /\ ms'.pc = "idle" /\ ms'.ret

(* C14: the compensation gives the pressure and the temperature that the  *)
(* same formulas give when each of their intermediate integer divisions   *)
(* truncates toward zero, for negative dT = D2 - C[5] * 256 too.          *)
C14_DivisionsTruncate ==
    [][Compensated =>
          LET ref == Compensate(FALSE, ms'.C, ms'.D1, ms'.D2)
          IN  /\ QEq(ms'.pressure_mbar, ref.pressure_mbar)
              /\ QEq(ms'.temperature_c, ref.temperature_c)]_vars

(* C16: a get_readings_since call that has begun ends by returning, and    *)
(* what it returns is the list of the samples newer than `since` of the    *)
(* buffer as it was at one instant, whatever the sensor loop appends       *)
(* meanwhile.                                                              *)
C16_SnapshotCompletes ==
    [][\A w \in Query :
          (wk[w].pc = "data_iter" /\ wk'[w].pc # "data_iter") =>
              /\ wk'[w].pc = "data_elapsed"
              /\ wk'[w].new_readings =
                     get_readings_since(session, wk[w].since)]_vars

\* a calculate_leak_rate call returns a dict
VerdictReturned(w) ==
    wk[w].pc = "calc_temp" /\ wk'[w].pc \in {"stop_store", "data_resp"}

(* C17: the start-window depths, end-window depths, first and last         *)
(* timestamps and temperature mean of one calculate_leak_rate call are     *)
(* all read from the same sample sequence, so the verdict returned is the  *)
(* verdict of that sequence.                                               *)
C17_VerdictFromOneSequence ==
    [][\A w \in Workers :
          VerdictReturned(w) =>
              /\ ~wk[w].calc.mixed
              /\ wk[w].calc.seq = SeqNow
              /\ calculate_leak_rate(session) =
                     IF wk[w].calc.caller = "api_stop"
                     THEN wk'[w].result ELSE wk'[w].leak_rate]_vars

\* api_data passes its test `session.status == "testing" and elapsed_min > 6`
PreviewDecided(w) == wk[w].pc = "data_check" /\ wk'[w].pc # "data_check"

(* C18: api_data calls calculate_leak_rate for the preview exactly when    *)
(* the session is testing and the elapsed time it computed is at least 6   *)
(* minutes, 6 minutes exactly included; in idle, baseline and complete it  *)
(* never does.                                                             *)
C18_PreviewIffTestingAndSixMinutes ==
    [][\A w \in Query :
          PreviewDecided(w) =>
              (wk'[w].pc = "data_calc" <=>
                  /\ session.status = "testing"
                  /\ ~QLt(wk[w].elapsed_min, QInt(PreviewAfterMin)))]_vars

\* a pass of the sensor loop whose sensor.read() succeeded
RealTick == prod.pc = "sleep" /\ prod'.pc = "check" /\ prod'.read_ok

(* C19: the depth of every successful reading is measured from the         *)
(* pressure of the first successful reading of the process (the pressure   *)
(* baseline_offset was taken from), so the first successful reading has    *)
(* depth 0; api_start and api_stop do not change that reference.           *)
C19_DepthRelativeToFirstReading ==
    [][RealTick =>
          /\ prod'.baseline_offset # None
          /\ (prod.baseline_offset # None =>
                  prod'.baseline_offset = prod.baseline_offset)
          /\ QEq(prod'.depth,
                 depth_mm(QSub(prod'.pressure, Val(prod'.baseline_offset))))
          /\ (prod.baseline_offset = None => QEq(prod'.depth, QInt(0)))]_vars

(* C20: in every state a concurrent reader can observe, the start_time of  *)
(* a session that an api_start constructed is None exactly when its status *)
(* is "idle": seen in baseline, testing or complete, it has a start_time.  *)
C20_StartTimeNullIffIdle ==
    session.id > 1 =>
        ((session.start_time = None) <=> (session.status = "idle"))

\* api_start has completed for the session with identity k, and the session
\* is still the active one and in baseline
AwaitsPromotion(k) ==
    /\ session.id = k
    /\ session.status = "baseline"
    /\ session.start_time # None

\* the session with identity k is testing, was stopped, or was superseded
PromotedOrGone(k) ==
    \/ session.id # k
    \/ session.status \in {"testing", "complete"}

(* C21: when the switch_to_testing threads are scheduled fairly, a session *)
(* that was started and is neither stopped nor superseded eventually       *)
(* becomes testing; once testing it never goes back to baseline, and a     *)
(* further assignment by a switch_to_testing thread leaves it as it is.    *)
C21_EventuallyTestingOnce ==
    /\ \A k \in 2..(MaxStarts + 1) : AwaitsPromotion(k) ~> PromotedOrGone(k)
    /\ [][/\ (session.status = "testing" /\ session'.id = session.id) =>
                 session'.status \in {"testing", "complete"}
          /\ \A i \in 1..Len(timers) :
                 (Promotes(i) /\ session.status = "testing") =>
                     session' = session]_vars

\* the readings pass both tests of calculate_leak_rate: at least MinReadings
\* of them, the first and the last at least 0.1 hours apart
SamplesSuffice(self) ==
    /\ ~TooFew(self.readings)
    /\ ~TooShort(Q(self.readings[Len(self.readings)].t - self.readings[1].t,
                   3600))

(* C22: no state a concurrent api_data can observe has the session         *)
(* complete with its result still None while its readings suffice for a    *)
(* verdict (at least 60 of them, spanning at least 6 minutes).             *)
C22_CompleteHasResult ==
    (session.status = "complete" /\ SamplesSuffice(session)) =>
        session.result # None

(* C23: in every reachable state each reading stored in the active session *)
(* has a timestamp not earlier than the session's start_time, however a    *)
(* pass of the sensor loop, which takes its timestamp first, interleaves   *)
(* with an api_start that replaces the session.                            *)
C23_ReadingsNotBeforeStart ==
    session.start_time # None =>
        \A i \in 1..Len(session.readings) :
            session.readings[i].t >= Val(session.start_time)

\* api_data executes a statement that reads the global `session`, after the
\* one that called get_readings_since
ReadsSession(w) ==
    /\ wk[w].pc \in {"data_elapsed", "data_check", "data_calc", "data_resp",
                     "data_total", "data_result"}
    /\ wk'[w].pc # wk[w].pc

(* C24: every field of one api_data response (status, elapsed, total       *)
(* count, new readings, latest, preview, result) is read from the          *)
(* TestSession instance the new readings were read from, also when an      *)
(* api_start replaces the global session while the query is served.        *)
C24_ResponseFromOneInstance ==
    [][\A w \in Query : ReadsSession(w) => session.id = wk[w].at[1]]_vars

====
